---- MODULE Spec2Model ----
(***************************************************************************)
(* A model of etherscan_abi_downloader: the run of main (src/main.rs)      *)
(* from read_addresses to the two merges, download_abis with its           *)
(* per-address loop, the table writer and merger, and the selector         *)
(* derivation (src/abi_downloader.rs).                                     *)
(*                                                                         *)
(* External collaborators are inputs of the model: the outcome of every    *)
(* I/O call the code tests with `?` or `match` (file open, directory       *)
(* creation, stdout flush, fetch, file create, parquet encode, merge) is   *)
(* chosen with \E; the Keccak-256 function is the variable keccak, a       *)
(* function from signature strings to 32-byte digests that never changes.  *)
(***************************************************************************)
EXTENDS Integers, Sequences, FiniteSets, TLC

VARIABLES
    file,            \* the address list file: a sequence of io::Result<String> lines
    keccak,          \* Keccak-256 on the signatures in play (external hash)
    pc,              \* position of main / download_abis
    addresses,       \* main.rs:54  Vec<String> returned by read_addresses
    index,           \* abi_downloader.rs:92  1-based position of the loop
    function_files,  \* abi_downloader.rs:83
    event_files,     \* abi_downloader.rs:84
    functions,       \* abi_downloader.rs:98  rows of the address being processed
    events,          \* abi_downloader.rs:98
    disk,            \* the output directory: path -> file content
    dirs,            \* directories created under output_dir
    now,             \* tokio clock, milliseconds since the run began
    trace,           \* history: what the run has done so far, in order
    sel_in,          \* selector derivation: the description last hashed
    sel_kind,        \* "function" | "event" | "none"
    sel_out          \* the selector string produced for sel_in

vars == <<file, keccak, pc, addresses, index, function_files, event_files,
          functions, events, disk, dirs, now, trace, sel_in, sel_kind, sel_out>>

runVars == <<file, pc, addresses, index, function_files, event_files,
             functions, events, disk, dirs, now, trace>>

selVars == <<sel_in, sel_kind, sel_out>>

(***************************************************************************)
(* Bounds of the model                                                     *)
(***************************************************************************)
\* the address list file has at most MaxLines lines
MaxLines == 3

\* a fetch takes 0 or MaxLatency milliseconds
MaxLatency == 1

(***************************************************************************)
(* Program constants                                                       *)
(***************************************************************************)
\* const RATE_LIMIT: Duration = Duration::from_millis(333)
RATE_LIMIT == 333

\* let mut output = [0u8; 32]
DigestLen == 32

\* hex::encode(&output[..4])
FunctionSelectorBytes == 4

(***************************************************************************)
(* Strings.  Address texts and signatures are TLA+ strings; a selector is  *)
(* a sequence of one-character strings so that its length and alphabet     *)
(* can be inspected.                                                       *)
(***************************************************************************)
AddrMixed == "0xA0b86991c6218b36c1d19D4a2e9Eb0cE3606eB48"
AddrMixedLower == "0xa0b86991c6218b36c1d19d4a2e9eb0ce3606eb48"
AddrLower == "0xdac17f958d2ee523a2206206994597c13d831ec7"
Blank == ""
Junk == "not-an-address"

\* the well-formed address strings among the line texts of the model
WellFormed == {AddrMixed, AddrLower}

Texts == WellFormed \cup {Blank, Junk}

\* a line as BufRead::lines yields it: Ok(text), or Err when the bytes do not decode
Line == [ok : {TRUE}, text : Texts] \cup {[ok |-> FALSE, text |-> Blank]}

Files == UNION {[1..n -> Line] : n \in 0..MaxLines}

\* str::to_lowercase on the address texts of the model
ToLowercase(s) == IF s = AddrMixed THEN AddrMixedLower ELSE s

\* Address::from_str: Ok exactly on the well-formed texts
AddressFromStrOk(s) == s \in WellFormed

(***************************************************************************)
(* Signature encoder                                                       *)
(***************************************************************************)
RECURSIVE Join(_, _)
\* [String]::join(sep)
Join(ss, sep) ==
    IF Len(ss) = 0 THEN ""
    ELSE IF Len(ss) = 1 THEN ss[1]
    ELSE ss[1] \o sep \o Join(Tail(ss), sep)

RECURSIVE SelectorType(_)
\* Param::selector_type: the canonical type of a parameter, tuples spelled out
SelectorType(p) ==
    IF p.ty = "tuple"
    THEN "(" \o Join([i \in 1..Len(p.components) |-> SelectorType(p.components[i])], ",") \o ")"
    ELSE p.ty

\* filter_map(|input| input.selector_type().into()): From<T> for Option<T> is
\* always Some, so every input is kept
InputTypes(inputs) == [i \in 1..Len(inputs) |-> SelectorType(inputs[i])]

create_function_signature(f) == f.name \o "(" \o Join(InputTypes(f.inputs), ",") \o ")"

create_event_signature(e) == e.name \o "(" \o Join(InputTypes(e.inputs), ",") \o ")"

\* HEX_CHARS_LOWER of the hex crate
HexChars == <<"0", "1", "2", "3", "4", "5", "6", "7",
              "8", "9", "a", "b", "c", "d", "e", "f">>

\* a hex encoder that drops the leading zero of a byte below 16 (as {:x} does)
HexEncodeUnpadded(bytes) ==
    LET digits(b) == IF b < 16 THEN <<HexChars[b + 1]>>
                     ELSE <<HexChars[(b \div 16) + 1], HexChars[(b % 16) + 1]>>
        F[n \in 0..Len(bytes)] == IF n = 0 THEN <<>> ELSE F[n - 1] \o digits(bytes[n])
    IN F[Len(bytes)]

\* hex::encode: two lower-case digits per byte, high nibble first
HexEncode(bytes) ==
    [i \in 1..(2 * Len(bytes)) |->
        IF i % 2 = 1 THEN HexChars[(bytes[(i + 1) \div 2] \div 16) + 1]
                     ELSE HexChars[(bytes[i \div 2] % 16) + 1]]

\* keccak.update(signature.as_bytes()); keccak.finalize(&mut output)
Keccak256(signature) == keccak[signature]

create_function_selector(f) ==
    <<"0", "x">> \o
    HexEncode(SubSeq(Keccak256(create_function_signature(f)), 1, FunctionSelectorBytes))

create_event_selector(e) ==
    <<"0", "x">> \o HexEncode(Keccak256(create_event_signature(e)))

(***************************************************************************)
(* Interface descriptions and the digests of their signatures              *)
(***************************************************************************)
Elem(t) == [ty |-> t, components |-> <<>>]

TransferFn == [name |-> "transfer", inputs |-> <<Elem("address"), Elem("uint256")>>]

TransferEv == [name |-> "Transfer",
               inputs |-> <<Elem("address"), Elem("address"), Elem("uint256")>>]

ApprovalEv == [name |-> "Approval",
               inputs |-> <<Elem("address"), Elem("address"), Elem("uint256")>>]

PauseFn == [name |-> "pause", inputs |-> <<>>]

FooFn == [name |-> "foo",
          inputs |-> <<[ty |-> "tuple", components |-> <<Elem("uint256"), Elem("address")>>]>>]

\* Keccak-256 of "transfer(address,uint256)"
DigestTransferFn ==
    <<169, 5, 156, 187, 42, 176, 158, 178, 25, 88, 63, 74, 89, 165, 208, 98,
      58, 222, 52, 109, 150, 43, 205, 78, 70, 177, 29, 160, 71, 201, 4, 155>>

\* Keccak-256 of "Transfer(address,address,uint256)"
DigestTransferEv ==
    <<221, 242, 82, 173, 27, 226, 200, 155, 105, 194, 176, 104, 252, 55, 141, 170,
      149, 43, 167, 241, 99, 196, 161, 22, 40, 245, 90, 77, 245, 35, 179, 239>>

\* Keccak-256 of "Approval(address,address,uint256)"
DigestApprovalEv ==
    <<140, 91, 225, 229, 235, 236, 125, 91, 209, 79, 113, 66, 125, 30, 132, 243,
      221, 3, 20, 192, 247, 178, 41, 30, 91, 32, 10, 200, 199, 195, 185, 37>>

\* Keccak-256 of "pause()"
DigestPauseFn ==
    <<132, 86, 203, 89, 26, 147, 77, 83, 246, 204, 198, 51, 33, 35, 161, 101,
      161, 243, 86, 41, 7, 191, 17, 51, 13, 132, 122, 41, 202, 73, 235, 137>>

\* the digests of the signatures that occur in the run
KnownDigests ==
    [s \in {create_function_signature(TransferFn), create_event_signature(TransferEv),
            create_event_signature(ApprovalEv)} |->
        IF s = create_function_signature(TransferFn) THEN DigestTransferFn
        ELSE IF s = create_event_signature(TransferEv) THEN DigestTransferEv
        ELSE DigestApprovalEv]

\* what client.contract_abi can return: functions() and events() in iteration order
EmptyAbi == [functions |-> <<>>, events |-> <<>>]

Erc20Abi == [functions |-> <<TransferFn>>, events |-> <<ApprovalEv, TransferEv>>]

AbiChoices == {EmptyAbi, Erc20Abi}

Latencies == {0, MaxLatency}

(***************************************************************************)
(* Record model and the table writer / merger                              *)
(***************************************************************************)
\* process_contract: one AbiRecord per function and per event, in iteration order
FunctionRecords(address, abi_json) ==
    [i \in 1..Len(abi_json.functions) |->
        [name |-> abi_json.functions[i].name,
         record_type |-> "function",
         contract_address |-> ToLowercase(address),
         signature |-> create_function_signature(abi_json.functions[i]),
         selector |-> create_function_selector(abi_json.functions[i])]]

EventRecords(address, abi_json) ==
    [i \in 1..Len(abi_json.events) |->
        [name |-> abi_json.events[i].name,
         record_type |-> "event",
         contract_address |-> ToLowercase(address),
         signature |-> create_event_signature(abi_json.events[i]),
         selector |-> create_event_selector(abi_json.events[i])]]

Column(records, c) == [i \in 1..Len(records) |-> records[i][c]]

\* DataFrame::new of the five Series built from the records
DataFrameNew(records) ==
    [record_type |-> Column(records, "record_type"),
     contract_address |-> Column(records, "contract_address"),
     name |-> Column(records, "name"),
     signature |-> Column(records, "signature"),
     selector |-> Column(records, "selector")]

EmptyFrame == DataFrameNew(<<>>)

\* the rows of a frame, read back as records
Rows(df) ==
    [i \in 1..Len(df.name) |->
        [name |-> df.name[i],
         record_type |-> df.record_type[i],
         contract_address |-> df.contract_address[i],
         signature |-> df.signature[i],
         selector |-> df.selector[i]]]

\* a file on disk: a parquet table, or bytes that are no table (a write that
\* failed after File::create)
Table(df) == [valid |-> TRUE, df |-> df]

Corrupt == [valid |-> FALSE, df |-> EmptyFrame]

Put(d, path, content) ==
    [q \in (DOMAIN d) \cup {path} |-> IF q = path THEN content ELSE d[q]]

WriteOutcomes == {"ok", "create_err", "finish_err"}

\* write_parquet: File::create(filename)?, then ParquetWriter::finish(&mut df)?
write_parquet(d, records, filename, outcome) ==
    IF outcome = "create_err" THEN d
    ELSE IF outcome = "finish_err" THEN Put(d, filename, Corrupt)
    ELSE Put(d, filename, Table(DataFrameNew(records)))

\* a frame with the rows of a followed by the rows of b
VStackReversed(a, b) ==
    [record_type |-> b.record_type \o a.record_type,
     contract_address |-> b.contract_address \o a.contract_address,
     name |-> b.name \o a.name,
     signature |-> b.signature \o a.signature,
     selector |-> b.selector \o a.selector]

VStack(a, b) ==
    [record_type |-> a.record_type \o b.record_type,
     contract_address |-> a.contract_address \o b.contract_address,
     name |-> a.name \o b.name,
     signature |-> a.signature \o b.signature,
     selector |-> a.selector \o b.selector]

\* every input file exists and is a table
Readable(d, input_files) ==
    \A i \in 1..Len(input_files) :
        input_files[i] \in DOMAIN d /\ d[input_files[i]].valid

\* LazyFrame::scan_parquet_files(input_files).collect(): the files' rows, file by file
ScanParquetFiles(d, input_files) ==
    LET F[n \in 0..Len(input_files)] ==
            IF n = 0 THEN EmptyFrame ELSE VStack(F[n - 1], d[input_files[n]].df)
    IN F[Len(input_files)]

ConcatOutcomes == {"ok", "scan_err", "create_err", "finish_err"}

\* concatenate_parquet_files: scan and collect, File::create(output_file)?, finish
concatenate_parquet_files(d, input_files, output_file, outcome) ==
    IF outcome \in {"scan_err", "create_err"} THEN d
    ELSE IF outcome = "finish_err" THEN Put(d, output_file, Corrupt)
    ELSE Put(d, output_file, Table(ScanParquetFiles(d, input_files)))

\* functions_dir.join(format!("{}_functions.parquet", address_str))
FunctionFile(address_str) == "functions/" \o address_str \o "_functions.parquet"

\* events_dir.join(format!("{}_events.parquet", address_str))
EventFile(address_str) == "events/" \o address_str \o "_events.parquet"

all_functions_path == "all_functions.parquet"

all_events_path == "all_events.parquet"

(***************************************************************************)
(* The run: main from read_addresses on, and download_abis                 *)
(***************************************************************************)
\* an entry of the history
Ev(e, pos, at, dur, what) ==
    [ev |-> e, pos |-> pos, at |-> at, dur |-> dur, what |-> what, abi |-> EmptyAbi]

\* error!(...); process::exit(1)
Abort(what) ==
    /\ pc' = "exit1"
    /\ trace' = Append(trace, Ev("abort", index, now, 0, what))

NoDesc == [name |-> "", inputs |-> <<>>]

\* main has its client and is about to read the address list; the output directory
\* is empty
Init ==
    /\ file \in Files
    /\ keccak = KnownDigests
    /\ pc = "read_addresses"
    /\ addresses = <<>>
    /\ index = 1
    /\ function_files = <<>>
    /\ event_files = <<>>
    /\ functions = <<>>
    /\ events = <<>>
    /\ disk = [q \in {} |-> Corrupt]
    /\ dirs = {}
    /\ now = 0
    /\ trace = <<>>
    /\ sel_in = NoDesc
    /\ sel_kind = "none"
    /\ sel_out = <<>>

\* a reader that also drops the lines that are blank
read_addresses_skip_blank(f) ==
    LET kept == SelectSeq(f, LAMBDA l : l.ok /\ l.text # Blank)
    IN [i \in 1..Len(kept) |-> kept[i].text]

\* reader.lines().filter_map(|line| line.ok()).collect()
read_addresses(f) ==
    LET kept == SelectSeq(f, LAMBDA l : l.ok)
    IN [i \in 1..Len(kept) |-> kept[i].text]

\* main.rs:54-60 with read_addresses: File::open(filename)? then the lines
ReadAddresses ==
    /\ pc = "read_addresses"
    /\ \E opened \in BOOLEAN :
        IF opened
        THEN /\ addresses' = read_addresses(file)
             /\ pc' = "create_functions_dir"
             /\ trace' = trace
        ELSE /\ Abort("read_addresses")
             /\ addresses' = addresses
    /\ UNCHANGED <<file, keccak, index, function_files, event_files, functions,
                   events, disk, dirs, now, selVars>>

\* std::fs::create_dir_all(&functions_dir).map_err(..)?
CreateFunctionsDir ==
    /\ pc = "create_functions_dir"
    /\ \E created \in BOOLEAN :
        IF created
        THEN /\ dirs' = dirs \cup {"functions"}
             /\ pc' = "create_events_dir"
             /\ trace' = trace
        ELSE /\ Abort("create_dir_all")
             /\ dirs' = dirs
    /\ UNCHANGED <<file, keccak, addresses, index, function_files, event_files,
                   functions, events, disk, now, selVars>>

\* std::fs::create_dir_all(&events_dir).map_err(..)?
CreateEventsDir ==
    /\ pc = "create_events_dir"
    /\ \E created \in BOOLEAN :
        IF created
        THEN /\ dirs' = dirs \cup {"events"}
             /\ pc' = "for"
             /\ trace' = trace
        ELSE /\ Abort("create_dir_all")
             /\ dirs' = dirs
    /\ UNCHANGED <<file, keccak, addresses, index, function_files, event_files,
                   functions, events, disk, now, selVars>>

\* the loop takes the next address: info!(..); std::io::stdout().flush()?
ForNext ==
    /\ pc = "for"
    /\ index <= Len(addresses)
    /\ \E flushed \in BOOLEAN :
        IF flushed
        THEN /\ pc' = "from_str"
             /\ trace' = trace
        ELSE Abort("flush")
    /\ UNCHANGED <<file, keccak, addresses, index, function_files, event_files,
                   functions, events, disk, dirs, now, selVars>>

\* the loop is over: Ok((function_files, event_files)), and main goes on to the merges
ForEnd ==
    /\ pc = "for"
    /\ index > Len(addresses)
    /\ pc' = "concat_functions"
    /\ UNCHANGED <<file, keccak, addresses, index, function_files, event_files,
                   functions, events, disk, dirs, now, trace, selVars>>

\* a loop that skips an address it cannot parse instead of returning the error
FromStrSkips ==
    /\ pc = "from_str"
    /\ pc' = IF AddressFromStrOk(addresses[index]) THEN "contract_abi" ELSE "sleep"
    /\ UNCHANGED <<file, keccak, addresses, index, function_files, event_files,
                   functions, events, disk, dirs, now, trace, selVars>>

\* let addr_rep = Address::from_str(&address_str)?
FromStr ==
    /\ pc = "from_str"
    /\ IF AddressFromStrOk(addresses[index])
       THEN /\ pc' = "contract_abi"
            /\ trace' = trace
       ELSE Abort("from_str")
    /\ UNCHANGED <<file, keccak, addresses, index, function_files, event_files,
                   functions, events, disk, dirs, now, selVars>>

\* client.contract_abi(addr_rep): the request is issued
ContractAbi ==
    /\ pc = "contract_abi"
    /\ pc' = "await"
    /\ trace' = Append(trace, Ev("request", index, now, 0, addresses[index]))
    /\ UNCHANGED <<file, keccak, addresses, index, function_files, event_files,
                   functions, events, disk, dirs, now, selVars>>

\* .await gives Ok(abi_json): process_contract(address_str, &abi_json)?
ResponseOk ==
    /\ pc = "await"
    /\ \E abi_json \in AbiChoices, d \in Latencies :
        /\ now' = now + d
        /\ functions' = FunctionRecords(addresses[index], abi_json)
        /\ events' = EventRecords(addresses[index], abi_json)
        /\ trace' = Append(trace, [Ev("response", index, now + d, 0, "ok")
                                    EXCEPT !.abi = abi_json])
    /\ pc' = "write_functions"
    /\ UNCHANGED <<file, keccak, addresses, index, function_files, event_files,
                   disk, dirs, selVars>>

\* a fetch whose error is returned with `?` instead of being matched
ResponseErrAborts ==
    /\ pc = "await"
    /\ \E d \in Latencies :
        /\ now' = now + d
        /\ pc' = "exit1"
        /\ trace' = trace \o <<Ev("response", index, now + d, 0, "err"),
                               Ev("abort", index, now + d, 0, "contract_abi")>>
    /\ UNCHANGED <<file, keccak, addresses, index, function_files, event_files,
                   functions, events, disk, dirs, selVars>>

\* an Err branch that ends with `continue`, so that the sleep is skipped
ResponseErrContinue ==
    /\ pc = "await"
    /\ \E d \in Latencies :
        /\ now' = now + d
        /\ trace' = Append(trace, Ev("response", index, now + d, 0, "err"))
    /\ index' = index + 1
    /\ pc' = "for"
    /\ UNCHANGED <<file, keccak, addresses, function_files, event_files,
                   functions, events, disk, dirs, selVars>>

\* an Err branch that asks again for the same address
ResponseErrRetry ==
    /\ pc = "await"
    /\ \E d \in Latencies :
        /\ now' = now + d
        /\ trace' = Append(trace, Ev("response", index, now + d, 0, "err"))
    /\ pc' = IF Cardinality({i \in 1..Len(trace) : trace[i].ev = "request"}) < 4
             THEN "contract_abi" ELSE "sleep"
    /\ UNCHANGED <<file, keccak, addresses, index, function_files, event_files,
                   functions, events, disk, dirs, selVars>>

\* .await gives Err(e): print!, warn!
ResponseErr ==
    /\ pc = "await"
    /\ \E d \in Latencies :
        /\ now' = now + d
        /\ trace' = Append(trace, Ev("response", index, now + d, 0, "err"))
    /\ pc' = "sleep"
    /\ UNCHANGED <<file, keccak, addresses, index, function_files, event_files,
                   functions, events, disk, dirs, selVars>>

\* a write whose error is logged and skipped like a fetch error
WriteFunctionsSoft ==
    /\ pc = "write_functions"
    /\ \E outcome \in WriteOutcomes :
        /\ disk' = write_parquet(disk, functions, FunctionFile(addresses[index]), outcome)
        /\ IF outcome = "ok"
           THEN /\ pc' = "write_events"
                /\ trace' = Append(trace, Ev("write", index, now, 0,
                                             FunctionFile(addresses[index])))
           ELSE /\ pc' = "sleep"
                /\ trace' = trace
    /\ UNCHANGED <<file, keccak, addresses, index, function_files, event_files,
                   functions, events, dirs, now, selVars>>

\* write_parquet(&functions, &function_file)?
WriteFunctions ==
    /\ pc = "write_functions"
    /\ \E outcome \in WriteOutcomes :
        /\ disk' = write_parquet(disk, functions, FunctionFile(addresses[index]), outcome)
        /\ IF outcome = "ok"
           THEN /\ pc' = "write_events"
                /\ trace' = Append(trace, Ev("write", index, now, 0,
                                             FunctionFile(addresses[index])))
           ELSE Abort("write_parquet")
    /\ UNCHANGED <<file, keccak, addresses, index, function_files, event_files,
                   functions, events, dirs, now, selVars>>

\* write_parquet(&events, &event_file)?
WriteEvents ==
    /\ pc = "write_events"
    /\ \E outcome \in WriteOutcomes :
        /\ disk' = write_parquet(disk, events, EventFile(addresses[index]), outcome)
        /\ IF outcome = "ok"
           THEN /\ pc' = "push"
                /\ trace' = Append(trace, Ev("write", index, now, 0,
                                             EventFile(addresses[index])))
           ELSE Abort("write_parquet")
    /\ UNCHANGED <<file, keccak, addresses, index, function_files, event_files,
                   functions, events, dirs, now, selVars>>

\* a loop that records the function file and forgets the event file
PushFunctionOnly ==
    /\ pc = "push"
    /\ function_files' = Append(function_files, FunctionFile(addresses[index]))
    /\ event_files' = event_files
    /\ pc' = "sleep"
    /\ trace' = Append(trace, Ev("push", index, now, 0, addresses[index]))
    /\ UNCHANGED <<file, keccak, addresses, index, functions, events, disk, dirs,
                   now, selVars>>

\* function_files.push(function_file); event_files.push(event_file)
Push ==
    /\ pc = "push"
    /\ function_files' = Append(function_files, FunctionFile(addresses[index]))
    /\ event_files' = Append(event_files, EventFile(addresses[index]))
    /\ pc' = "sleep"
    /\ trace' = Append(trace, Ev("push", index, now, 0, addresses[index]))
    /\ UNCHANGED <<file, keccak, addresses, index, functions, events, disk, dirs,
                   now, selVars>>

\* time::sleep(RATE_LIMIT).await, and the loop moves to the next address
Sleep ==
    /\ pc = "sleep"
    /\ now' = now + RATE_LIMIT
    /\ index' = index + 1
    /\ pc' = "for"
    /\ trace' = Append(trace, Ev("sleep", index, now + RATE_LIMIT, RATE_LIMIT, ""))
    /\ UNCHANGED <<file, keccak, addresses, function_files, event_files, functions,
                   events, disk, dirs, selVars>>

\* one merge of main: concatenate_parquet_files(input_files, output_file), and
\* process::exit(1) on Err.  A scan of files that are not all readable fails; any
\* other scan, that of an empty list included, may succeed or fail, as the parquet
\* library and the file system decide.
Concat(input_files, output_file, next) ==
    \E outcome \in ConcatOutcomes :
        /\ outcome # "scan_err" => Readable(disk, input_files)
        /\ disk' = concatenate_parquet_files(disk, input_files, output_file, outcome)
        /\ IF outcome = "ok"
           THEN /\ pc' = next
                /\ trace' = Append(trace, Ev("concat", index, now, 0, output_file))
           ELSE Abort("concatenate_parquet_files")

\* main.rs:73-76
ConcatFunctions ==
    /\ pc = "concat_functions"
    /\ Concat(function_files, all_functions_path, "concat_events")
    /\ UNCHANGED <<file, keccak, addresses, index, function_files, event_files,
                   functions, events, dirs, now, selVars>>

\* main.rs:78-84: the second merge, then info!(..) and Ok(())
ConcatEvents ==
    /\ pc = "concat_events"
    /\ Concat(event_files, all_events_path, "exit0")
    /\ UNCHANGED <<file, keccak, addresses, index, function_files, event_files,
                   functions, events, dirs, now, selVars>>

Next ==
    \/ ReadAddresses
    \/ CreateFunctionsDir
    \/ CreateEventsDir
    \/ ForNext
    \/ ForEnd
    \/ FromStr
    \/ ContractAbi
    \/ ResponseOk
    \/ ResponseErr
    \/ WriteFunctions
    \/ WriteEvents
    \/ Push
    \/ Sleep
    \/ ConcatFunctions
    \/ ConcatEvents

Spec == Init /\ [][Next]_vars

\* the exit code of the process, -1 while it runs
ExitCode == IF pc = "exit0" THEN 0 ELSE IF pc = "exit1" THEN 1 ELSE -1

(***************************************************************************)
(* The selector derivation on its own: any description of SelDescs, under  *)
(* any assignment of the digests of Digests to the signatures              *)
(***************************************************************************)
SelDescs == {TransferFn, TransferEv, PauseFn, FooFn}

SelSignatures == {create_function_signature(d) : d \in SelDescs}

\* 32 bytes 0, 1, .. 31: every byte of the 4-byte prefix is below 16
DigestLow == [i \in 1..DigestLen |-> i - 1]

\* 32 bytes 0xff
DigestHigh == [i \in 1..DigestLen |-> 255]

Digests == {DigestTransferFn, DigestPauseFn, DigestLow, DigestHigh}

SelInit ==
    /\ keccak \in [SelSignatures -> Digests]
    /\ file = <<>>
    /\ pc = "selectors"
    /\ addresses = <<>>
    /\ index = 1
    /\ function_files = <<>>
    /\ event_files = <<>>
    /\ functions = <<>>
    /\ events = <<>>
    /\ disk = [q \in {} |-> Corrupt]
    /\ dirs = {}
    /\ now = 0
    /\ trace = <<>>
    /\ sel_in = NoDesc
    /\ sel_kind = "none"
    /\ sel_out = <<>>

\* selector: create_function_selector(f)
CreateFunctionSelector ==
    /\ pc = "selectors"
    /\ \E f \in SelDescs :
        /\ sel_in' = f
        /\ sel_kind' = "function"
        /\ sel_out' = create_function_selector(f)
    /\ UNCHANGED <<keccak, runVars>>

\* selector: create_event_selector(e)
CreateEventSelector ==
    /\ pc = "selectors"
    /\ \E e \in SelDescs :
        /\ sel_in' = e
        /\ sel_kind' = "event"
        /\ sel_out' = create_event_selector(e)
    /\ UNCHANGED <<keccak, runVars>>

SelNext ==
    \/ CreateFunctionSelector
    \/ CreateEventSelector

SelSpec == SelInit /\ [][SelNext]_vars

(***************************************************************************)
(* Reading the history                                                     *)
(***************************************************************************)
\* the indices of the history entries of one kind
Idx(e) == {i \in 1..Len(trace) : trace[i].ev = e}

Requests == Idx("request")

Responses == Idx("response")

OkResponses == {i \in Responses : trace[i].what = "ok"}

ErrResponses == {i \in Responses : trace[i].what = "err"}

Aborts == Idx("abort")

\* why the run was aborted
AbortedBy(what) == \E i \in Aborts : trace[i].what = what

\* the elements of a finite set of integers, ascending
Ascending(S) ==
    [i \in 1..Cardinality(S) |-> CHOOSE p \in S : Cardinality({q \in S : q <= p}) = i]

\* the input positions whose fetch succeeded, in input order
OkPositions == Ascending({trace[i].pos : i \in OkResponses})

\* the interface description the fetch of position p returned
AbiAt(p) == trace[CHOOSE i \in OkResponses : trace[i].pos = p].abi

RECURSIVE Flatten(_)
Flatten(ss) == IF Len(ss) = 0 THEN <<>> ELSE Head(ss) \o Flatten(Tail(ss))

\* the rows of the table at a path
RowsAt(path) == Rows(disk[path].df)

IsTable(path) == path \in DOMAIN disk /\ disk[path].valid

(***************************************************************************)
(* C1  Per-address isolation                                               *)
(***************************************************************************)
\* N >= 1 well-formed addresses, every one of them fetched, exactly one fetch failed
OneFetchFailed ==
    /\ Len(file) >= 1
    /\ \A i \in 1..Len(file) : file[i].ok /\ file[i].text \in WellFormed
    /\ {trace[i].pos : i \in Responses} = 1..Len(file)
    /\ Cardinality(ErrResponses) = 1

\* the addresses whose fetch succeeded, in input order
OkAddresses == [i \in 1..Len(OkPositions) |-> addresses[OkPositions[i]]]

NoDuplicates(ss) == \A i, j \in 1..Len(ss) : ss[i] = ss[j] => i = j

\* what the run leaves behind when it ends with exit code 0: N-1 function files and
\* N-1 event files written and recorded, and consolidated tables made of the rows of
\* the succeeding addresses, address by address in input order
IsolatedResult ==
    LET n == Len(file)
        ok == OkAddresses
        fnPaths == [i \in 1..Len(ok) |-> FunctionFile(ok[i])]
        evPaths == [i \in 1..Len(ok) |-> EventFile(ok[i])]
        written(paths) == {i \in Idx("write") : \E k \in 1..Len(paths) : trace[i].what = paths[k]}
    IN /\ Len(ok) = n - 1
       /\ function_files = fnPaths
       /\ event_files = evPaths
       /\ Cardinality(written(fnPaths)) = n - 1
       /\ Cardinality(written(evPaths)) = n - 1
       /\ \A k \in 1..Len(ok) : IsTable(fnPaths[k]) /\ IsTable(evPaths[k])
       /\ IsTable(all_functions_path)
       /\ IsTable(all_events_path)
       /\ \A k \in 1..Len(ok) :
            /\ \A r \in 1..Len(RowsAt(fnPaths[k])) :
                   RowsAt(fnPaths[k])[r].contract_address = ToLowercase(ok[k])
            /\ \A r \in 1..Len(RowsAt(evPaths[k])) :
                   RowsAt(evPaths[k])[r].contract_address = ToLowercase(ok[k])
       /\ RowsAt(all_functions_path) = Flatten([k \in 1..Len(ok) |-> RowsAt(fnPaths[k])])
       /\ RowsAt(all_events_path) = Flatten([k \in 1..Len(ok) |-> RowsAt(evPaths[k])])
       /\ NoDuplicates(ok) =>
            /\ RowsAt(all_functions_path) =
                 Flatten([k \in 1..Len(ok) |-> FunctionRecords(ok[k], AbiAt(OkPositions[k]))])
            /\ RowsAt(all_events_path) =
                 Flatten([k \in 1..Len(ok) |-> EventRecords(ok[k], AbiAt(OkPositions[k]))])

Last(i) == i = Len(trace)

\* C2 as stated: within download_abis only a failure to create a directory or to
\* parse an address ends the run; a failed write of an address's table is soft.
C2_AsStated ==
    \A i \in Aborts :
        trace[i].what \in {"read_addresses", "concatenate_parquet_files",
                           "create_dir_all", "from_str"}

\* C2 amended: in download_abis the failures that abort the whole run are a failure
\* to create the functions/ or events/ directory, to flush stdout, to parse an
\* address, or to write that address's function or event table file; only a failure
\* to fetch the ABI is soft: the loop goes on to the sleep and the next address, and
\* the run does not end with an error because of it.
C2_FatalAndSoft ==
    /\ \A i \in Aborts :
        /\ Last(i) /\ pc = "exit1"
        /\ trace[i].what \in {"read_addresses", "concatenate_parquet_files",
                              "create_dir_all", "flush", "from_str", "write_parquet"}
    /\ \A i \in ErrResponses :
        IF Last(i) THEN pc = "sleep"
        ELSE trace[i + 1].ev = "sleep" /\ trace[i + 1].pos = trace[i].pos
    /\ \A path \in DOMAIN disk : ~disk[path].valid => pc = "exit1"
    /\ pc \in {"write_events", "push"} => IsTable(FunctionFile(addresses[index]))
    /\ pc = "push" => IsTable(EventFile(addresses[index]))

\* a fetch failed and the loop went on to fetch the next address, whose table write
\* failed and ended the run
C2_Witness ==
    /\ pc = "exit1"
    /\ AbortedBy("write_parquet")
    /\ \E i \in ErrResponses : \E j \in Requests : j > i

(***************************************************************************)
(* C3  A malformed address aborts the whole run                            *)
(***************************************************************************)
Malformed(k) == k \in 1..Len(addresses) /\ ~AddressFromStrOk(addresses[k])

\* the run never gets past a malformed address: no fetch for it or a later one, no
\* merge, no consolidated file, and the only way out of its position is exit code 1
StopsAtMalformed ==
    \A k \in 1..Len(addresses) :
        Malformed(k) =>
            /\ \A i \in Requests : trace[i].pos < k
            /\ index <= k
            /\ index = k => pc \notin {"contract_abi", "await", "write_functions",
                                        "write_events", "push", "sleep"}
            /\ pc \notin {"concat_functions", "concat_events"}
            /\ ExitCode # 0
            /\ all_functions_path \notin DOMAIN disk
            /\ all_events_path \notin DOMAIN disk

\* the step that rejects the address ends the run and touches no file
RejectLeavesFiles ==
    (pc = "from_str" /\ ~AddressFromStrOk(addresses[index]))
        => (pc' = "exit1" /\ disk' = disk /\ function_files' = function_files
            /\ event_files' = event_files)

\* C3: a malformed address at position k aborts the run: no fetch is issued for it
\* or for any later address, main exits non-zero without creating
\* all_functions.parquet or all_events.parquet, and the per-address files written
\* before position k stay as they are.
C3_MalformedAborts == [](StopsAtMalformed) /\ [][RejectLeavesFiles]_vars

\* the run was aborted at a malformed address in position 3 after two addresses had
\* their files written
C3_Witness ==
    /\ ExitCode = 1
    /\ AbortedBy("from_str")
    /\ Malformed(3)
    /\ Len(function_files) = 2
    /\ Cardinality(DOMAIN disk) = 4

(***************************************************************************)
(* C4  The fixed delay after every fetch                                   *)
(***************************************************************************)
\* C4: after every fetch attempt, failed or not, the loop sleeps RATE_LIMIT before
\* it goes to the next address: a later request comes after a sleep of exactly
\* RATE_LIMIT for the answered position and at least RATE_LIMIT after the answer,
\* any two requests are at least RATE_LIMIT apart, and no sleep is shorter or longer
\* after a failure than after a success.
C4_FixedDelay ==
    /\ \A i \in Responses :
        /\ \A j \in Requests :
            j > i => /\ trace[j].at >= trace[i].at + RATE_LIMIT
                     /\ \E k \in Idx("sleep") :
                            /\ i < k /\ k < j
                            /\ trace[k].pos = trace[i].pos
                            /\ trace[k].dur = RATE_LIMIT
        /\ index > trace[i].pos =>
            \E k \in Idx("sleep") : k > i /\ trace[k].pos = trace[i].pos
    /\ \A i, j \in Requests : i < j => trace[j].at - trace[i].at >= RATE_LIMIT
    /\ \A k \in Idx("sleep") :
        /\ trace[k].dur = RATE_LIMIT
        /\ \E i \in Responses : i < k /\ trace[i].pos = trace[k].pos

\* a failed fetch and a successful one, each followed by a request for the next address
C4_Witness ==
    /\ \E i \in ErrResponses : \E j \in Requests : j > i
    /\ \E i \in OkResponses : \E j \in Requests : j > i

(***************************************************************************)
(* C5  What the address list reader drops                                  *)
(***************************************************************************)
RECURSIVE OkTexts(_)
\* the texts of the lines that decoded, in file order
OkTexts(f) ==
    IF Len(f) = 0 THEN <<>>
    ELSE (IF Head(f).ok THEN <<Head(f).text>> ELSE <<>>) \o OkTexts(Tail(f))

AddressesRead == pc # "read_addresses" /\ ~AbortedBy("read_addresses")

\* C5 as stated: blank or invalid lines never reach download_abis, and a file of
\* valid addresses and blank lines is not aborted at an address.
C5_AsStated ==
    AddressesRead =>
        /\ \A k \in 1..Len(addresses) : addresses[k] \in WellFormed
        /\ (\A i \in 1..Len(file) : file[i].ok /\ file[i].text \in WellFormed \cup {Blank})
               => ~AbortedBy("from_str")

\* C5 amended: read_addresses drops only the lines that fail to decode as text;
\* blank lines and other invalid texts are kept in file order, reach download_abis,
\* and the run cannot finish with exit code 0 or go past such a line, so a file with
\* valid addresses and one blank line is not processed like the file without it.
C5_OnlyUndecodableDropped ==
    AddressesRead =>
        /\ addresses = OkTexts(file)
        /\ \A i \in 1..Len(file) :
            (file[i].ok /\ file[i].text \notin WellFormed) =>
                /\ \E k \in 1..Len(addresses) : addresses[k] = file[i].text /\ index <= k
                /\ pc # "exit0"

\* an undecodable line was dropped, the address after it was fetched, and the blank
\* line after that ended the run
C5_Witness ==
    /\ Len(file) = 3
    /\ ~file[1].ok
    /\ file[3].ok /\ file[3].text = Blank
    /\ Len(addresses) = 2
    /\ Cardinality(Requests) = 1
    /\ pc = "exit1"
    /\ AbortedBy("from_str")

(***************************************************************************)
(* C6  The merge keeps order and content                                   *)
(***************************************************************************)
\* the table at out holds the rows of the input files, file by file, row by row
MergedInOrder(out, inputs) ==
    IsTable(out) =>
        LET rows == RowsAt(out)
            off[k \in 0..Len(inputs)] ==
                IF k = 0 THEN 0 ELSE off[k - 1] + Len(RowsAt(inputs[k]))
        IN /\ Len(rows) = off[Len(inputs)]
           /\ \A k \in 1..Len(inputs) :
                \A r \in 1..Len(RowsAt(inputs[k])) :
                    rows[off[k - 1] + r] = RowsAt(inputs[k])[r]

\* the last write of the history to a path
LastWrite(path) ==
    CHOOSE i \in Idx("write") :
        /\ trace[i].what = path
        /\ \A j \in Idx("write") : trace[j].what = path => j <= i

\* a table file holds the records it was written from, in their order
WrittenRowsKept ==
    \A i \in Idx("write") :
        LET a == addresses[trace[i].pos]
        IN /\ (trace[i].what = FunctionFile(a) /\ i = LastWrite(FunctionFile(a))
               /\ IsTable(FunctionFile(a)))
                => RowsAt(FunctionFile(a)) = FunctionRecords(a, AbiAt(trace[i].pos))
           /\ (trace[i].what = EventFile(a) /\ i = LastWrite(EventFile(a))
               /\ IsTable(EventFile(a)))
                => RowsAt(EventFile(a)) = EventRecords(a, AbiAt(trace[i].pos))

C9_Sequential ==
    /\ Cardinality(Requests) - Cardinality(Responses) = IF pc = "await" THEN 1 ELSE 0
    /\ Cardinality(Requests) <= Len(addresses)
    /\ \A i \in Requests : trace[i].pos \in 1..Len(addresses)
    /\ \A i, j \in Requests :
        i < j =>
            /\ trace[i].pos < trace[j].pos
            /\ \E r \in Responses :
                /\ i < r /\ r < j
                /\ trace[r].pos = trace[i].pos
                /\ trace[r].what = "ok" =>
                    \E wf, we \in Idx("write") :
                        /\ r < wf /\ wf < we /\ we < j
                        /\ trace[wf].what = FunctionFile(addresses[trace[i].pos])
                        /\ trace[we].what = EventFile(addresses[trace[i].pos])

\* three requests, among them one that failed and one that succeeded
C9_Witness ==
    /\ Cardinality(Requests) = 3
    /\ \E i \in ErrResponses : trace[i].pos = 1
    /\ \E i \in OkResponses : trace[i].pos = 2

LowerHex == {"0", "1", "2", "3", "4", "5", "6", "7", "8", "9", "a", "b", "c", "d", "e", "f"}

\* the value of a lower-case hex digit
HexValue(c) == CHOOSE v \in 0..15 : HexChars[v + 1] = c

\* the bytes a string of hex digits stands for
HexDecode(chars) ==
    [i \in 1..(Len(chars) \div 2) |->
        HexValue(chars[2 * i - 1]) * 16 + HexValue(chars[2 * i])]

\* "0x" followed by n lower-case hex digits that spell the given bytes
IsSelectorOf(sel, n, bytes) ==
    /\ Len(sel) = 2 + n
    /\ sel[1] = "0" /\ sel[2] = "x"
    /\ \A i \in 3..Len(sel) : sel[i] \in LowerHex
    /\ HexDecode(SubSeq(sel, 3, Len(sel))) = bytes

\* C8: a function selector is "0x" and exactly 8 lower-case hex characters, the first
\* 4 bytes of the digest of the signature; an event selector is "0x" and exactly 64,
\* the whole digest; and the function selector is the 10-character prefix of what the
\* event rule gives for the same signature.
C8_SelectorShape ==
    /\ sel_kind = "function" =>
        /\ IsSelectorOf(sel_out, 8,
                        SubSeq(keccak[create_function_signature(sel_in)], 1, 4))
        /\ sel_out = SubSeq(create_event_selector(sel_in), 1, 10)
    /\ sel_kind = "event" =>
        IsSelectorOf(sel_out, 64, keccak[create_event_signature(sel_in)])

\* a function selector was derived from a digest whose first bytes are below 16
C8_Witness ==
    /\ sel_kind = "function"
    /\ sel_in = FooFn
    /\ keccak[create_function_signature(FooFn)] = DigestLow
    /\ Len(sel_out) = 10

====
